---- MODULE Spec2Model ----
(***************************************************************************)
(* BargainB: the Self-RAG graph (my_agent/agent.py, my_agent/utils) and    *)
(* the bee-hive supervisor graph (my_agent/memory_agent/agent.py) as state *)
(* machines.  A graph state is a record with one field per key of the      *)
(* graph's state schema; a node is an operator from the state (and the     *)
(* answers of the LLM, the retriever or the store, which are drawn from    *)
(* small sets) to the partial update the node returns; Update writes the   *)
(* update into the state the way StateGraph does.                          *)
(***************************************************************************)
EXTENDS Integers, Sequences, FiniteSets, TLC

\* ------------------------------------------------------------------ bounds
\* Documents the retriever can return in one call.
MaxDocs == 2
\* Super-steps LangGraph lets one run take before it raises
\* GraphRecursionError (recursion_limit; the repository passes none, so the
\* framework default applies: any finite value behaves alike here).
MaxSteps == 9

\* ----------------------------------------------------------------- helpers
Min(a, b) == IF a < b THEN a ELSE b

Last(s) == s[Len(s)]

\* x in s, for a list s
Contains(s, x) == \E i \in 1..Len(s) : s[i] = x

\* s[:n]
Take(s, n) == SubSeq(s, 1, Min(n, Len(s)))

\* Injective sequences over S of length <= n
InjSeqs(S, n) ==
    UNION { { s \in [1..k -> S] : \A i, j \in 1..k : i # j => s[i] # s[j] } : k \in 0..n }

\* Update that keeps every key a node returns, declared or not
Update_keeping(st, upd) ==
    [k \in (DOMAIN st) \cup (DOMAIN upd) |-> IF k \in DOMAIN upd THEN upd[k] ELSE st[k]]

\* StateGraph writes a node's return value channel by channel: a key of the
\* schema that the update names takes the update's value, a key it does not
\* name keeps its value, and a key the schema does not declare is no channel
\* and is discarded.  (messages has the add_messages reducer: every node
\* here returns the messages it was given, by id, followed by new ones, so
\* the merged list is the returned list.)
Update(st, upd) ==
    [k \in DOMAIN st |-> IF k \in DOMAIN upd THEN upd[k] ELSE st[k]]

\* state.get(key, default)
Get(st, key, default) == IF key \in DOMAIN st THEN st[key] ELSE default

\* ============================================================ Self-RAG graph
\* A question is the list of its words (str.split()).  retrieve_node tests
\* `keyword in question.lower()`, a substring test on the text: the words
\* used here are lower-case and none holds a keyword as a proper part, so a
\* keyword occurs in the text exactly when it is one of the words.
product_types ==
    << "milk", "bread", "cheese", "meat", "fish", "fruit", "vegetable",
       "snack", "drink", "breakfast", "lunch", "dinner" >>

modifiers ==
    << "organic", "low-fat", "whole", "fresh", "healthy", "cheap",
       "expensive", "bio", "natural" >>

\* [k for k in list if k in query_lower]
RECURSIVE Matches(_, _)
Matches(list, q) ==
    IF list = << >> THEN << >>
    ELSE (IF Contains(q, Head(list)) THEN << Head(list) >> ELSE << >>)
             \o Matches(Tail(list), q)

\* What the user may ask (the last message's content).
UserQuestions ==
    { << "organic", "milk" >>,
      << "i", "want", "organic", "milk" >>,
      << "what", "do", "you", "have" >> }

\* What the LLM may answer to the query-rewriting prompt.
Rewrites ==
    { << "milk" >>,
      << "cheap", "fresh", "organic", "bread" >> }

\* What the LLM may answer to the generation prompt.
Generations == { "answer A", "answer B" }

Verdicts == { "yes", "no" }

Docs == 1..MaxDocs

\* What the retriever may return: a ranked list of distinct products.
DocLists == InjSeqs(Docs, MaxDocs)

\* Per-document answers of the relevance grader to a list of n documents.
GradeLists(n) == [1..n -> Verdicts]

RagNodes ==
    { "retrieve", "grade_documents", "generate", "transform_query",
      "generate_generation_v_documents_grade",
      "generate_generation_v_question_grade" }

\* ------------------------------------------------------------------- nodes
\* retrieve_node; found is the retriever's answer to the question it is given
RetrieveQuestion(st) ==
    LET q0 == IF st.question # << >> THEN st.question
              ELSE IF st.messages # << >> THEN Last(st.messages)
              ELSE st.question
        keywords == Matches(product_types, q0) \o Matches(modifiers, q0)
    IN  IF Len(q0) > 3 /\ st.documents = << >> /\ keywords # << >>
        THEN Take(keywords, 3)
        ELSE q0

retrieve_node(st, found) ==
    [ documents |-> found,
      question  |-> RetrieveQuestion(st),
      messages  |-> st.messages ]

\* generate_node that returns the generation it was given, not the new text
generate_node_stale(st, text) ==
    [ generation |-> st.generation,
      documents  |-> st.documents,
      question   |-> st.question,
      messages   |-> st.messages ]

\* generate_node; text is the LLM's answer
generate_node(st, text) ==
    [ generation |-> text,
      documents  |-> st.documents,
      question   |-> st.question,
      messages   |-> st.messages ]

\* The loop of grade_documents_node over documents[i..]: filtered_docs after
\* the grader answered grades[i] for documents[i].
RECURSIVE FilterFrom(_, _, _, _)
FilterFrom(docs, grades, i, filtered_docs) ==
    IF i > Len(docs) THEN filtered_docs
    ELSE FilterFrom(docs, grades, i + 1,
                    IF grades[i] = "yes" THEN Append(filtered_docs, docs[i])
                    ELSE filtered_docs)

\* The grader calls of that loop, one per iteration: the documents asked about.
RECURSIVE AskedFrom(_, _, _)
AskedFrom(docs, i, asked) ==
    IF i > Len(docs) THEN asked
    ELSE AskedFrom(docs, i + 1, Append(asked, docs[i]))

\* The same loop with filtered_docs.insert(0, doc) for filtered_docs.append(doc)
RECURSIVE FilterFromPrepending(_, _, _, _)
FilterFromPrepending(docs, grades, i, filtered_docs) ==
    IF i > Len(docs) THEN filtered_docs
    ELSE FilterFromPrepending(docs, grades, i + 1,
                    IF grades[i] = "yes" THEN << docs[i] >> \o filtered_docs
                    ELSE filtered_docs)

\* grade_documents_node with that loop
grade_documents_node_prepending(st, grades) ==
    [ documents |-> FilterFromPrepending(st.documents, grades, 1, << >>),
      question  |-> st.question,
      messages  |-> st.messages ]

grade_documents_node(st, grades) ==
    [ documents |-> FilterFrom(st.documents, grades, 1, << >>),
      question  |-> st.question,
      messages  |-> st.messages ]

\* transform_query_node; better_question is the LLM's answer
transform_query_node(st, better_question) ==
    [ question   |-> better_question,
      documents  |-> st.documents,
      generation |-> st.generation,
      messages   |-> st.messages ]

\* generate_generation_v_documents_grade_node; score is the grader's answer
generate_generation_v_documents_grade_node(st, score) ==
    [ generation_v_documents_grade |-> score,
      documents  |-> st.documents,
      question   |-> st.question,
      generation |-> st.generation,
      messages   |-> st.messages ]

\* generate_generation_v_question_grade_node; score is the grader's answer
generate_generation_v_question_grade_node(st, score) ==
    [ generation_v_question_grade |-> score,
      documents  |-> st.documents,
      question   |-> st.question,
      generation |-> st.generation,
      messages   |-> st.messages ]

\* ----------------------------------------------------------------- routing
\* decide_to_generate without the test for an empty list
decide_to_generate_always(st) == "generate"

decide_to_generate(st) ==
    IF st.documents = << >> THEN "transform_query" ELSE "generate"

\* grade_generation_v_documents that does not read the grade
grade_generation_v_documents_unread(st) == "supported"

grade_generation_v_documents(st) ==
    IF st.generation_v_documents_grade = "yes" THEN "supported"
    ELSE "not_supported"

grade_generation_v_question(st) ==
    IF st.generation_v_question_grade = "yes" THEN "useful"
    ELSE "not_useful"

\* The path maps of add_conditional_edges and the plain edges of the graph.
AfterGradeDocuments(st) ==
    IF decide_to_generate(st) = "transform_query" THEN "transform_query"
    ELSE "generate"

\* The path map with "not_supported": "retrieve"
AfterDocumentsGrade_retrieve(st) ==
    IF grade_generation_v_documents(st) = "supported"
    THEN "generate_generation_v_question_grade"
    ELSE "retrieve"

AfterDocumentsGrade(st) ==
    IF grade_generation_v_documents(st) = "supported"
    THEN "generate_generation_v_question_grade"
    ELSE "generate"

\* The path map with "not_useful": "generate"
AfterQuestionGrade_generate(st) ==
    IF grade_generation_v_question(st) = "useful" THEN "END"
    ELSE "generate"

AfterQuestionGrade(st) ==
    IF grade_generation_v_question(st) = "useful" THEN "END"
    ELSE "transform_query"

AfterRetrieve == "grade_documents"

AfterGenerate == "generate_generation_v_documents_grade"

AfterTransformQuery == "retrieve"

\* ====================================================== supervisor graph
\* The keys BargainBMemoryState declares are the channels of
\* StateGraph(BargainBMemoryState); the dict a node returns may name others
\* (iteration_count, delegation_completed, scout_results, memory_results,
\* scribe_results, current_bee), which Update discards.  Of the declared
\* keys the model keeps those the nodes of this graph read or write.

\* {**st, **upd}
Merged(st, upd) ==
    [k \in DOMAIN st \cup DOMAIN upd |-> IF k \in DOMAIN upd THEN upd[k] ELSE st[k]]

\* if iteration_count >= 10:  # Maximum 10 iterations
IterationCeiling == 10

\* The delegation tools bound to Beeb, and the worker each names.
HandoffTools ==
    { "assign_to_scout_bee", "assign_to_memory_bee", "assign_to_scribe_bee" }

WorkerOf(tool_name) ==
    CASE tool_name = "assign_to_scout_bee"  -> "scout_bee"
      [] tool_name = "assign_to_memory_bee" -> "memory_bee"
      [] tool_name = "assign_to_scribe_bee" -> "scribe_bee"
      [] OTHER -> "end"

ToolCall(tool_name, args) == [name |-> tool_name, args |-> args]

\* What Beeb's LLM may answer: the tool calls of its message (none: a reply
\* to the user).  The LLM may name a tool that does not exist.
BeebAnswers ==
    { << >>,
      << ToolCall("assign_to_scout_bee", "find milk") >>,
      << ToolCall("assign_to_memory_bee", "shopping") >>,
      << ToolCall("assign_to_scribe_bee", "") >>,
      << ToolCall("lookup_weather", "") >>,
      << ToolCall("lookup_weather", ""),
         ToolCall("assign_to_scout_bee", "find milk") >> }

HumanMessage == [type |-> "human", tool_calls |-> << >>]

AIMessage(tool_calls) == [type |-> "ai", tool_calls |-> tool_calls]

\* {"role": "tool", ...}: a message without tool calls
ToolResponse == [type |-> "tool", tool_calls |-> << >>]

\* hasattr(message, 'tool_calls') and message.tool_calls
HasToolCalls(message) == message.tool_calls # << >>

\* for tool_call in tool_calls: the worker of the first recognised name,
\* "end" when the loop finds none
RECURSIVE FirstWorker(_)
FirstWorker(tool_calls) ==
    IF tool_calls = << >> THEN "end"
    ELSE IF Head(tool_calls).name \in HandoffTools
         THEN WorkerOf(Head(tool_calls).name)
         ELSE FirstWorker(Tail(tool_calls))

\* for message in reversed(messages[:i]): the tool calls of the most recent
\* message that has some (the loop breaks there), none when there is none
RECURSIVE RecentToolCalls(_, _)
RecentToolCalls(messages, i) ==
    IF i = 0 THEN << >>
    ELSE IF HasToolCalls(messages[i]) THEN messages[i].tool_calls
         ELSE RecentToolCalls(messages, i - 1)

\* One tool response per tool call of Beeb's message
RECURSIVE ToolResponses(_)
ToolResponses(tool_calls) ==
    IF tool_calls = << >> THEN << >>
    ELSE << ToolResponse >> \o ToolResponses(Tail(tool_calls))

load_memories_forgetful(st, user_id, found, raised) ==
    Merged(st, [ user_id |-> user_id,
                 iteration_count |-> 0, delegation_completed |-> FALSE ])

\* load_memories; user_id is config's, found what the store holds for the
\* user, raised whether store.search raised
load_memories(st, user_id, found, raised) ==
    IF user_id = ""
    THEN Merged(st, [ iteration_count |-> 0, delegation_completed |-> FALSE ])
    ELSE IF raised
    THEN Merged(st, [ user_id |-> user_id,
                      iteration_count |-> 0, delegation_completed |-> FALSE ])
    ELSE Merged(st, [ user_id |-> user_id,
                      semantic_memory   |-> found.profile,
                      episodic_memories |-> found.shopping,
                      procedural_memory |-> found.instructions,
                      iteration_count |-> 0, delegation_completed |-> FALSE ])

\* iteration_count = state.get("iteration_count", 0) + 1
beeb_iteration_count(st) == Get(st, "iteration_count", 0) + 1

\* beeb_supervisor_node; tool_calls are those of the LLM's message
beeb_supervisor_node(st, tool_calls) ==
    LET updated_messages ==
            st.messages \o << AIMessage(tool_calls) >> \o ToolResponses(tool_calls)
        return_state ==
            Merged(st, [ messages |-> updated_messages,
                         current_bee |-> "beeb",
                         iteration_count |-> beeb_iteration_count(st) ])
    IN  IF tool_calls = << >>
        THEN Merged(return_state, [ scout_results  |-> "",
                                    memory_results |-> "",
                                    scribe_results |-> "",
                                    delegation_completed |-> TRUE ])
        ELSE return_state

route_beeb_decisions(st) ==
    LET messages == Get(st, "messages", << >>)
    IN  IF messages = << >> THEN "end"
        ELSE IF Get(st, "iteration_count", 0) >= IterationCeiling THEN "end"
        ELSE IF Get(st, "delegation_completed", FALSE) THEN "end"
        ELSE IF \/ Get(st, "scout_results", "") # ""
                \/ Get(st, "memory_results", "") # ""
                \/ Get(st, "scribe_results", "") # ""
        THEN IF HasToolCalls(Last(messages)) /\ Last(messages).type = "ai"
             THEN FirstWorker(Last(messages).tool_calls)
             ELSE "end"
        ELSE FirstWorker(RecentToolCalls(messages, Len(messages)))

\* The path map of the conditional edges out of beeb
AfterBeeb(st) ==
    IF route_beeb_decisions(st) = "end" THEN "END" ELSE route_beeb_decisions(st)

\* scout_bee_node that also appends its findings to messages
scout_bee_node_speaking(st, outcome) ==
    Merged(st, [ messages |-> st.messages \o << AIMessage(<< >>) >>,
                 scout_results |-> "Found products",
                 current_bee |-> "scout_bee" ])

\* scout_bee_node; outcome is what semantic_search did
scout_bee_node(st, outcome) ==
    Merged(st, [ scout_results |->
                     CASE outcome = "products" -> "Found products"
                       [] outcome = "nothing"  -> "No products found"
                       [] OTHER                -> "Search encountered an error",
                 current_bee |-> "scout_bee" ])

\* memory_type of memory_bee_node: the argument of an assign_to_memory_bee
\* call of the last message, "profile" when that message has none
RECURSIVE MemoryTypeCalled(_, _)
MemoryTypeCalled(tool_calls, memory_type) ==
    IF tool_calls = << >> THEN memory_type
    ELSE MemoryTypeCalled(Tail(tool_calls),
            IF Head(tool_calls).name = "assign_to_memory_bee"
            THEN Head(tool_calls).args ELSE memory_type)

MemoryType(st) ==
    IF st.messages # << >> /\ HasToolCalls(Last(st.messages))
    THEN MemoryTypeCalled(Last(st.messages).tool_calls, "profile")
    ELSE "profile"

\* The namespace kind each memory type is stored under
KindOf(memory_type) ==
    CASE memory_type = "profile"      -> "profile"
      [] memory_type = "shopping"     -> "shopping"
      [] memory_type = "instructions" -> "instructions"
      [] OTHER -> "none"

\* memory_bee_node that reports nothing when the handler raised
memory_bee_node_silent(st, user_id, outcome) ==
    Merged(st, [ memory_results |-> IF outcome = "failed" THEN "" ELSE "Updated",
                 current_bee |-> "memory_bee" ])

\* memory_bee_node; outcome is what the handler did ("failed": it raised)
memory_bee_node(st, user_id, outcome) ==
    Merged(st, [ memory_results |->
                     IF user_id = "" THEN "No user ID provided for memory storage"
                     ELSE IF KindOf(MemoryType(st)) = "none" THEN "Unknown memory type"
                     ELSE IF outcome = "failed" THEN "Memory update failed"
                     ELSE "Updated",
                 current_bee |-> "memory_bee" ])

\* What the scribe agent's last message may hold
Summaries == { "", "summary of the conversation" }

\* scribe_bee_node; summary_result is the content of the scribe's last message
scribe_bee_node(st, summary_result) ==
    Merged(st, [ scribe_results |-> summary_result,
                 summary        |-> summary_result,
                 current_bee    |-> "scribe_bee" ])

\* ---------------------------------------------------------------- the store
\* The store's namespace (kind, user_id) is a list of items in the order
\* they were first put; an item is a key and the value last put under it.
\* Key 0 is "user_instructions"; the other keys stand for uuid4() values.
MaxRecords == 2

\* metadata without "json_doc_id"
NoDocId == -1

NoValue == "None"

StoreKinds == { "profile", "shopping", "instructions" }

Keys(items) == { items[i].key : i \in 1..Len(items) }

\* store.put(namespace, key, value)
Put(items, key, value) ==
    IF key \in Keys(items)
    THEN [ i \in 1..Len(items) |->
             IF items[i].key = key THEN [key |-> key, value |-> value] ELSE items[i] ]
    ELSE Append(items, [key |-> key, value |-> value])

\* str(uuid.uuid4()): a key the namespace does not hold
FreshKey(items) == CHOOSE k \in 1..(Len(items) + 1) : k \notin Keys(items)

\* What load_memories reads for the user: profile_items[0].value,
\* shopping_items[-5:], instructions_items[0].value
StoreView(st) ==
    [ profile      |-> IF st.profile = << >> THEN NoValue ELSE st.profile[1].value,
      shopping     |-> [ i \in 1..Min(5, Len(st.shopping)) |->
                           st.shopping[Len(st.shopping) - Min(5, Len(st.shopping)) + i].value ],
      instructions |-> IF st.instructions = << >> THEN NoValue
                       ELSE st.instructions[1].value ]

\* What the Trustcall extractor may return given the existing items: no
\* response, or one response that patches an existing document
\* (json_doc_id is its key) or is a new document (no json_doc_id).
ExtractedValues == { "facts A", "facts B" }

ExtractorAnswers(items) ==
    { << >> }
      \cup { << [json_doc_id |-> id, value |-> v] >> :
                id \in Keys(items) \cup (IF Len(items) < MaxRecords THEN { NoDocId } ELSE { }),
                v \in ExtractedValues }

\* for response, metadata in zip(...): store.put(namespace, memory_id, ...)
\* with memory_id = metadata.get("json_doc_id", default_id)
RECURSIVE PutAll(_, _, _)
PutAll(items, responses, kind) ==
    IF responses = << >> THEN items
    ELSE PutAll(Put(items,
                    IF Head(responses).json_doc_id # NoDocId THEN Head(responses).json_doc_id
                    ELSE IF kind = "instructions" THEN 0
                    ELSE FreshKey(items),
                    Head(responses).value),
                Tail(responses), kind)

\* _handle_profile_memory, _handle_shopping_memory, _handle_instructions_memory
HandleMemory(st, kind, responses) ==
    [st EXCEPT ![kind] = PutAll(st[kind], responses, kind)]

\* task_description of scout_bee_node: the argument of the most recent
\* assign_to_scout_bee call in messages[..i], the default when there is none
RECURSIVE ScoutTaskCalled(_, _)
ScoutTaskCalled(tool_calls, task) ==
    IF tool_calls = << >> THEN task
    ELSE IF Head(tool_calls).name = "assign_to_scout_bee" THEN Head(tool_calls).args
    ELSE ScoutTaskCalled(Tail(tool_calls), task)

RECURSIVE ScoutTask(_, _)
ScoutTask(messages, i) ==
    IF i = 0 THEN "Search for products"
    ELSE IF ScoutTaskCalled(messages[i].tool_calls, "Search for products")
                # "Search for products"
         THEN ScoutTaskCalled(messages[i].tool_calls, "Search for products")
         ELSE ScoutTask(messages, i - 1)

\* The task a worker works on when it runs in state st: scout_bee its
\* task_description, memory_bee its memory_type (its context is not
\* modelled), scribe_bee the fixed "Summarize this conversation".
TaskOf(st, worker) ==
    CASE worker = "scout_bee"  -> ScoutTask(st.messages, Len(st.messages))
      [] worker = "memory_bee" -> MemoryType(st)
      [] OTHER                 -> "Summarize this conversation"

\* Delegations in the tool calls of one beeb message
RECURSIVE Delegations(_)
Delegations(tool_calls) ==
    IF tool_calls = << >> THEN 0
    ELSE (IF Head(tool_calls).name \in HandoffTools THEN 1 ELSE 0)
            + Delegations(Tail(tool_calls))

HiveNodes == { "load_memories", "beeb", "scout_bee", "memory_bee", "scribe_bee" }

WorkerNodes == { "scout_bee", "memory_bee", "scribe_bee" }

\* ---------------------------------------------------- the store, all users
Users == { "user", "other" }

\* Turns that run at the same time (one per thread)
Writers == { 1, 2 }

\* What the extractor is given to extract in a turn of the user: the facts
\* of the user's own conversation.
FactsOf(user_id) == IF user_id = "user" THEN "facts A" ELSE "facts B"

\* The kinds of nodes.py: update_semantic_memory, update_episodic_memory
NodeKinds == { "semantic", "episodic" }

namespace_unkeyed(kind, user_id) == << kind, "user" >>

\* namespace = ("profile", user_id)
namespace(kind, user_id) == << kind, user_id >>

\* The namespaces of one user, as load_memories and the handlers address them
NamespacesOf(all, user_id) ==
    [ kind \in StoreKinds |-> all[namespace(kind, user_id)] ]

\* The kinds whose handler patches the one document of the user
PatchedKinds == { "profile", "instructions" }

IdleHandler == [ pc |-> "idle", user_id |-> "", kind |-> "", existing |-> << >> ]

\* A handler that has read the namespace and waits for the extractor
Extracting(user_id, kind, existing) ==
    [ pc |-> "extracting", user_id |-> user_id, kind |-> kind, existing |-> existing ]

\* The responses of the extractor that carry the facts of the user's turn
AnswersFor(items, user_id) ==
    { responses \in ExtractorAnswers(items) :
        \A i \in 1..Len(responses) : responses[i].value = FactsOf(user_id) }

\* ---------------------------------------------------------------- MemorySpy
\* Extractions the spy may record before the process ends
MaxExtractions == 3

\* What the extractor of update_semantic_memory may return: it is given the
\* first existing document only; update_episodic_memory gives it none.
SpyAnswers(existing, value) ==
    { << >>, << [json_doc_id |-> NoDocId, value |-> value] >> }
      \cup (IF existing = << >> THEN { }
            ELSE { << [json_doc_id |-> existing[1].key, value |-> value] >> })

\* The tool calls of the chat model run behind the responses: PatchDoc for
\* a patch, the schema's own tool for a new document
RECURSIVE ToolCallsOf(_, _)
ToolCallsOf(responses, schema_name) ==
    IF responses = << >> THEN << >>
    ELSE << [ name |-> IF Head(responses).json_doc_id # NoDocId
                       THEN "PatchDoc" ELSE schema_name,
              json_doc_id |-> Head(responses).json_doc_id,
              value |-> Head(responses).value ] >>
           \o ToolCallsOf(Tail(responses), schema_name)

\* MemorySpy.__call__: self.called_tools.append(kwargs["tool_calls"])
MemorySpy_call(called, tool_calls) == Append(called, tool_calls)

\* The changes of one call group
RECURSIVE ChangesIn(_, _)
ChangesIn(call_group, schema_name) ==
    IF call_group = << >> THEN << >>
    ELSE (IF Head(call_group).name = "PatchDoc"
          THEN << [ type |-> "update", doc_id |-> Head(call_group).json_doc_id,
                    content |-> Head(call_group).value ] >>
          ELSE IF Head(call_group).name = schema_name
          THEN << [ type |-> "new", doc_id |-> NoDocId,
                    content |-> Head(call_group).value ] >>
          ELSE << >>)
         \o ChangesIn(Tail(call_group), schema_name)

\* MemorySpy.extract_memory_changes: for call_group in self.called_tools
RECURSIVE extract_memory_changes(_, _)
extract_memory_changes(called, schema_name) ==
    IF called = << >> THEN << >>
    ELSE ChangesIn(Head(called), schema_name)
           \o extract_memory_changes(Tail(called), schema_name)

NoExtraction == [ schema |-> "", user_id |-> "", tool_calls |-> << >> ]

\* ------------------------------------------------------------ summarization
\* Messages ever added to the conversation
MaxSpoken == 9

\* Runs of summarize_conversation on the conversation
MaxSummaries == 3

\* response.content of the summarizing LLM
SummaryTexts == Summaries \cup { "extended summary of the conversation" }

\* A message with its id; quotes is the summary that the system message of
\* trim_conversation quotes (that message has no id: 0)
Message(id) == [ id |-> id, quotes |-> "" ]

Ids(messages) == { messages[i].id : i \in 1..Len(messages) }

\* The conversation state summarize_conversation reads
ThreadOf(messages, summary, conversation_id) ==
    [ messages |-> messages, summary |-> summary,
      conversation_id |-> conversation_id,
      messages_since_last_summary |-> 0, should_summarize |-> FALSE ]

\* if summary: ... "Extend the summary" else "Create a summary"
SummaryPrompt(st) ==
    IF st.summary \notin { NoValue, "" } THEN "extend" ELSE "create"

\* Removal of all but the most recent message
delete_messages_but_one(st) ==
    [ i \in 1..(IF Len(st.messages) > 1 THEN Len(st.messages) - 1 ELSE 0) |->
        st.messages[i].id ]

\* delete_messages = [RemoveMessage(id=m.id) for m in state["messages"][:-2]]
delete_messages(st) ==
    [ i \in 1..(IF Len(st.messages) > 2 THEN Len(st.messages) - 2 ELSE 0) |->
        st.messages[i].id ]

\* summarize_conversation: the update it returns
summarize_conversation(st, response) ==
    [ summary  |-> response,
      messages |-> delete_messages(st),
      messages_since_last_summary |-> 0,
      should_summarize |-> FALSE ]

\* add_messages given RemoveMessage entries
RemoveMessages(messages, ids) ==
    SelectSeq(messages, LAMBDA m : \A i \in 1..Len(ids) : ids[i] # m.id)

\* save_conversation_summary
save_conversation_summary(saved, summary_text, message_count) ==
    Append(saved, [ summary |-> summary_text, version |-> Len(saved) + 1,
                    message_count |-> message_count ])

\* log_message_truncation
log_message_truncation(logs, messages_before, messages_after, messages_removed) ==
    Append(logs, [ messages_before  |-> messages_before,
                   messages_after   |-> messages_after,
                   messages_removed |-> messages_removed ])

\* keep_recent of trim_conversation
KeepRecent == 4

\* trim_conversation
trim_conversation(messages, summary, keep_recent) ==
    IF Len(messages) <= keep_recent
    THEN [ messages |-> messages, summary |-> summary, trimmed |-> FALSE,
           original_length |-> Len(messages), new_length |-> Len(messages) ]
    ELSE [ messages |-> << [ id |-> 0, quotes |-> summary ] >>
                          \o [ i \in 1..keep_recent |->
                                 messages[Len(messages) - keep_recent + i] ],
           summary |-> summary, trimmed |-> TRUE,
           original_length |-> Len(messages), new_length |-> keep_recent + 1 ]

\* should_continue
should_continue(st) ==
    IF Len(st.messages) > 6 THEN "summarize_conversation" ELSE "__end__"

\* check_conversation_length
check_conversation_length(st) == Len(st.messages) > 8

\* threshold of should_summarize_conversation
SummarizeThreshold == 8

\* should_summarize_conversation
should_summarize_conversation(messages, threshold) == Len(messages) > threshold

NotInvoked ==
    [ runs |-> 0, messages |-> << >>, prompt |-> "", resent |-> { },
      covered |-> { }, response |-> "" ]

\* ------------------------------------------- delegation: Beeb and the search
\* A message with its content; tool_calls are the names of the tools called
Msg(type, content, tool_calls) ==
    [ type |-> type, content |-> content, tool_calls |-> tool_calls ]

\* What Beeb's LLM may answer (its one tool is ToProductSearch): nothing at
\* all, a reply, a reply that says goodbye, or a delegation
BeebReplies ==
    { Msg("ai", "", << >>), Msg("ai", "answer", << >>),
      Msg("ai", "goodbye", << >>), Msg("ai", "", << "ToProductSearch" >>) }

\* What the search agent's LLM may answer (tools: search_products,
\* CompleteOrEscalate)
SearchReplies ==
    { Msg("ai", "products", << >>), Msg("ai", "", << "search_products" >>),
      Msg("ai", "", << "CompleteOrEscalate" >>) }

\* What the user may say
UserSayings == { Msg("human", "hello", << >>), Msg("human", "goodbye", << >>) }

\* hasattr(message, 'tool_calls'): AIMessage declares tool_calls, the other
\* message classes do not
HasAttrToolCalls(message) == message.type = "ai"

\* any(phrase in content.lower() for phrase in end_phrases)
EndPhrase(content) == content = "goodbye"

\* ("user", "Please provide a helpful response.") and the search agent's
\* ("user", "Please search for products using search_products tool, ...")
RePrompt == Msg("human", "please respond", << >>)

\* BeebAssistant.__call__: not result.tool_calls and not result.content;
\* ProductSearchAgent.__call__: not result.tool_calls
NeedsRePrompt(agent, result) ==
    IF agent = "beeb" THEN result.tool_calls = << >> /\ result.content = ""
    ELSE result.tool_calls = << >>

\* clean_messages of entry_node: current_messages[:-1] without the messages
\* that have tool calls, then HumanMessage(search_query)
clean_messages(current_messages) ==
    SelectSeq(SubSeq(current_messages, 1, Len(current_messages) - 1),
              LAMBDA m : m.tool_calls = << >>)
       \o << Msg("human", "find milk", << >>) >>

\* for tool_call in tool_calls: the first ToProductSearch or
\* CompleteOrEscalate decides
RECURSIVE DelegationRoute(_)
DelegationRoute(tool_calls) ==
    IF tool_calls = << >> THEN "none"
    ELSE IF Head(tool_calls) = "ToProductSearch" THEN "continue_dialog"
    ELSE IF Head(tool_calls) = "CompleteOrEscalate" THEN "pop_dialog"
    ELSE DelegationRoute(Tail(tool_calls))

\* route_delegation
route_delegation(st) ==
    IF st.messages # << >> /\ EndPhrase(Last(st.messages).content)
    THEN "__end__"
    ELSE IF st.messages # << >>
            /\ HasAttrToolCalls(Last(st.messages))
            /\ DelegationRoute(Last(st.messages).tool_calls) # "none"
    THEN DelegationRoute(Last(st.messages).tool_calls)
    ELSE IF Len(st.messages) <= 1 THEN "continue_dialog"
    ELSE IF ~HasAttrToolCalls(Last(st.messages)) THEN "__end__"
    ELSE "continue_dialog"

\* should_continue_dialog
should_continue_dialog(st) ==
    IF st.messages = << >> THEN "entry"
    ELSE IF HasAttrToolCalls(Last(st.messages))
            /\ Last(st.messages).tool_calls # << >>
    THEN "entry"
    ELSE IF EndPhrase(Last(st.messages).content) THEN "__end__"
    ELSE "entry"

update_dialog_stack_clearing(left, right) ==
    IF right = NoValue THEN left
    ELSE IF right = "pop" THEN << >>
    ELSE Append(left, right)

\* update_dialog_stack; right is NoValue for None
update_dialog_stack(left, right) ==
    IF right = NoValue THEN left
    ELSE IF right = "pop" THEN SubSeq(left, 1, Len(left) - 1)
    ELSE Append(left, right)

\* List[Literal["beeb_assistant", "product_search"]]
DialogNames == { "beeb_assistant", "product_search" }

\* Entries the dialog stack may hold
MaxStack == 5

\* User messages given to entry_node, one call each
MaxEntryTurns == 2

\* LLM invocations within one call of entry_node
MaxInvocations == 4

\* ------------------------------------------------------------------- state
VARIABLES
    state,        \* AgentState of the Self-RAG run
    node,         \* the node to run next, "END", or "GraphRecursionError"
    step,         \* super-steps taken by the run
    lastNode,     \* the node that ran last ("" before the first)
    ran,          \* how often each node has run
    searched,     \* the question the retriever was last called with
    gradeLog,     \* last grade_documents: its input, the grader calls, the answers
    produced,     \* the text the LLM returned to the last generate
    genInput,     \* documents and question the last generate read
    groundedFor,  \* what the last groundedness grading graded, and its verdict
    usefulFor,    \* what the last usefulness grading graded, and its verdict
    via,          \* why transform_query was last entered
    history,      \* what has happened in the run so far (see RagInit)
    hive,         \* BargainBMemoryState of the thread (what the checkpointer holds)
    hnode,        \* the supervisor graph's node to run next, "END", or "GraphRecursionError"
    hstep,        \* super-steps taken by the turn
    hlast,        \* the node that ran last in the turn ("" before the first)
    turn,         \* turns started on the thread
    config,       \* config["configurable"]: user_id ("" when absent)
    store,        \* the store's namespaces of the user
    returned,     \* the dict the last node returned
    tally,        \* per turn: beeb runs, replies to the user (messages without
                  \* tool calls), delegations issued, worker runs, and the
                  \* worker and task of the last worker run
    thrown,       \* the node whose exception left ainvoke ("" when none did)
    namespaces,   \* the store of all users: the items of each (kind, user_id)
    handlers,     \* memory handlers in flight: what each has read so far
    seen,         \* the state the last load_memories of a new thread handed on
    called_tools, \* MemorySpy.called_tools
    changes,      \* what extract_memory_changes last reported
    extraction,   \* the last extraction: schema, user and the tool calls it made
    thread,       \* the conversation summarize_conversation works on
    truncation_logs, \* simple_persistence.truncation_logs
    conversation_summaries, \* simple_persistence.conversation_summaries
    invoked,      \* the last request summarize_conversation sent to the LLM
    trimmed,      \* what trim_conversation last returned
    dlg,          \* the state entry_node is called with: its messages
    entry,        \* the call of entry_node under way (see EntryIdle)
    dialog        \* dialog_state: the stack, and the last update applied to it

ragVars ==
    << state, node, step, lastNode, ran, searched, gradeLog, produced,
       genInput, groundedFor, usefulFor, via, history >>

hiveVars ==
    << hive, hnode, hstep, hlast, turn, config, store, returned, tally >>

tenantVars == << namespaces, handlers, seen >>

spyVars == << called_tools, changes, extraction >>

scribeVars ==
    << thread, truncation_logs, conversation_summaries, invoked, trimmed >>

delegVars == << dlg, entry, dialog >>

auxVars == << tenantVars, spyVars, scribeVars, delegVars >>

vars == << ragVars, hiveVars, thrown, auxVars >>

\* How an ainvoke stops: at END, or by an exception leaving it.
Halted == { "END", "GraphRecursionError", "Exception" }

\* test_self_rag.py: the caller passes the user's message, the question (or
\* none: retrieve_node then reads the message), no documents and empty grades.
AgentStateOf(message, question) ==
    [ messages   |-> message,
      documents  |-> << >>,
      question   |-> question,
      generation |-> "",
      generation_v_question_grade  |-> "",
      generation_v_documents_grade |-> "" ]

\* Nothing has run yet.
RagFresh ==
    /\ thrown = ""
    /\ step = 0
    /\ lastNode = ""
    /\ ran = [n \in RagNodes |-> 0]
    /\ searched = << >>
    /\ gradeLog = [docs |-> << >>, asked |-> << >>, answers |-> << >>]
    /\ produced = ""
    /\ genInput = [documents |-> << >>, question |-> << >>]
    /\ groundedFor = [gen |-> 0, text |-> "", documents |-> << >>, verdict |-> ""]
    /\ usefulFor = [gen |-> 0, text |-> "", question |-> << >>, verdict |-> ""]
    /\ via = ""
    /\ history = [ firstFound   |-> -1,     \* size of the first retrieval
                   allRelevant  |-> TRUE,   \* every document graded so far was relevant
                   someRelevant |-> FALSE,  \* some document was graded relevant
                   firstGrounded |-> "",    \* groundedness verdict of the first generation
                   firstUseful   |-> "" ]   \* usefulness verdict of the first generation

\* test_self_rag.py: the caller passes the user's message, the question (or
\* none: retrieve_node then reads the message), no documents and empty grades.
RagInit ==
    /\ \E q \in UserQuestions :
         \E given \in { q, << >> } :
            state = AgentStateOf(<< q >>, given)
    /\ node = "retrieve"
    /\ RagFresh

\* The Self-RAG graph is not run.
RagIdle ==
    /\ state = AgentStateOf(<< >>, << >>)
    /\ node = "idle"
    /\ RagFresh

\* n runs as the next super-step
Runs(n) ==
    /\ node = n
    /\ step < MaxSteps
    /\ step' = step + 1
    /\ lastNode' = n
    /\ ran' = [ran EXCEPT ![n] = @ + 1]
    /\ UNCHANGED << hiveVars, thrown, auxVars >>

Retrieve ==
    /\ Runs("retrieve")
    /\ \E found \in DocLists :
         /\ state' = Update(state, retrieve_node(state, found))
         /\ history' = IF history.firstFound = -1
                       THEN [history EXCEPT !.firstFound = Len(found)]
                       ELSE history
    /\ searched' = RetrieveQuestion(state)
    /\ node' = AfterRetrieve
    /\ UNCHANGED << gradeLog, produced, genInput, groundedFor, usefulFor, via >>

GradeDocuments ==
    /\ Runs("grade_documents")
    /\ \E grades \in GradeLists(Len(state.documents)) :
         /\ state' = Update(state, grade_documents_node(state, grades))
         /\ gradeLog' = [ docs    |-> state.documents,
                          asked   |-> AskedFrom(state.documents, 1, << >>),
                          answers |-> grades ]
         /\ history' =
              [history EXCEPT
                 !.allRelevant  = @ /\ \A i \in DOMAIN grades : grades[i] = "yes",
                 !.someRelevant = @ \/ \E i \in DOMAIN grades : grades[i] = "yes"]
    /\ node' = AfterGradeDocuments(state')
    /\ via' = IF node' = "transform_query" THEN "no_documents" ELSE via
    /\ UNCHANGED << searched, produced, genInput, groundedFor, usefulFor >>

Generate ==
    /\ Runs("generate")
    /\ \E text \in Generations :
         /\ state' = Update(state, generate_node(state, text))
         /\ produced' = text
    /\ genInput' = [documents |-> state.documents, question |-> state.question]
    /\ node' = AfterGenerate
    /\ UNCHANGED << searched, gradeLog, groundedFor, usefulFor, via, history >>

TransformQuery ==
    /\ Runs("transform_query")
    /\ \E better_question \in Rewrites :
         state' = Update(state, transform_query_node(state, better_question))
    /\ node' = AfterTransformQuery
    /\ UNCHANGED << searched, gradeLog, produced, genInput, groundedFor,
                    usefulFor, via, history >>

GradeGenerationVDocuments ==
    /\ Runs("generate_generation_v_documents_grade")
    /\ \E score \in Verdicts :
         /\ state' = Update(state, generate_generation_v_documents_grade_node(state, score))
         /\ groundedFor' = [ gen       |-> ran["generate"],
                             text      |-> state.generation,
                             documents |-> state.documents,
                             verdict   |-> score ]
         /\ history' = IF ran["generate"] = 1
                       THEN [history EXCEPT !.firstGrounded = score]
                       ELSE history
    /\ node' = AfterDocumentsGrade(state')
    /\ UNCHANGED << searched, gradeLog, produced, genInput, usefulFor, via >>

GradeGenerationVQuestion ==
    /\ Runs("generate_generation_v_question_grade")
    /\ \E score \in Verdicts :
         /\ state' = Update(state, generate_generation_v_question_grade_node(state, score))
         /\ usefulFor' = [ gen      |-> ran["generate"],
                           text     |-> state.generation,
                           question |-> state.question,
                           verdict  |-> score ]
         /\ history' = IF ran["generate"] = 1
                       THEN [history EXCEPT !.firstUseful = score]
                       ELSE history
    /\ node' = AfterQuestionGrade(state')
    /\ via' = IF node' = "transform_query" THEN "not_useful" ELSE via
    /\ UNCHANGED << searched, gradeLog, produced, genInput, groundedFor >>

\* The run has taken recursion_limit super-steps and has not reached END:
\* LangGraph raises GraphRecursionError out of graph.ainvoke.
RagRecursionError ==
    /\ node \in RagNodes
    /\ step = MaxSteps
    /\ node' = "GraphRecursionError"
    /\ UNCHANGED << state, step, lastNode, ran, searched, gradeLog, produced,
                    genInput, groundedFor, usefulFor, via, history >>
    /\ UNCHANGED << hiveVars, thrown, auxVars >>

\* No node of the Self-RAG graph catches what its calls raise.  retrieve:
\* retriever.invoke -> semantic_product_search -> connect(), which re-raises
\* when the database cannot be reached (a failing query is caught there and
\* gives no documents, which Retrieve covers).
RetrieveRaises ==
    /\ node = "retrieve"
    /\ step < MaxSteps
    /\ node' = "Exception"
    /\ thrown' = "retrieve"
    /\ UNCHANGED << state, step, lastNode, ran, searched, gradeLog, produced,
                    genInput, groundedFor, usefulFor, via, history >>
    /\ UNCHANGED << hiveVars, auxVars >>

\* The other nodes: the call of the LLM (grader, generator, rewriter) raises.
OracleRaises ==
    /\ node \in RagNodes \ { "retrieve" }
    /\ step < MaxSteps
    /\ node' = "Exception"
    /\ thrown' = node
    /\ UNCHANGED << state, step, lastNode, ran, searched, gradeLog, produced,
                    genInput, groundedFor, usefulFor, via, history >>
    /\ UNCHANGED << hiveVars, auxVars >>

Next ==
    \/ Retrieve
    \/ GradeDocuments
    \/ Generate
    \/ TransformQuery
    \/ GradeGenerationVDocuments
    \/ GradeGenerationVQuestion
    \/ RetrieveRaises
    \/ OracleRaises
    \/ RagRecursionError

\* ------------------------------------------------- supervisor graph: steps
\* The thread's state before its first turn's input is written.
HiveStateOf(messages) ==
    [ messages          |-> messages,
      user_id           |-> NoValue,
      summary           |-> NoValue,
      semantic_memory   |-> NoValue,
      episodic_memories |-> << >>,
      procedural_memory |-> NoValue ]

NoTally ==
    [ beeb |-> 0, replies |-> 0, delegations |-> 0, workers |-> 0,
      lastJob |-> << >> ]

HiveFresh ==
    /\ hstep = 0
    /\ hlast = ""
    /\ store = [k \in StoreKinds |-> << >>]
    /\ returned = << >>
    /\ tally = NoTally

\* comprehensive_agent_test.py: app.ainvoke({"messages": [HumanMessage]},
\* config) on a new thread, with or without a user_id in config.
HiveInit ==
    /\ hive = HiveStateOf(<< HumanMessage >>)
    /\ hnode = "load_memories"
    /\ turn = 1
    /\ config \in { [user_id |-> ""], [user_id |-> "user"] }
    /\ HiveFresh

\* The supervisor graph is not run.
HiveIdle ==
    /\ hive = HiveStateOf(<< >>)
    /\ hnode = "idle"
    /\ turn = 0
    /\ config = [user_id |-> ""]
    /\ HiveFresh

\* Turns on one thread.
MaxTurns == 2

\* Super-steps a turn may take: recursion_limit.
MaxHiveSteps == 4

\* tally after worker has run on the state hive
Worked(worker) ==
    [ tally EXCEPT !.workers = @ + 1,
                   !.lastJob = << worker, TaskOf(hive, worker) >> ]

\* n runs as the next super-step of the turn
HiveRuns(n) ==
    /\ hnode = n
    /\ hstep < MaxHiveSteps
    /\ hstep' = hstep + 1
    /\ hlast' = n
    /\ UNCHANGED << turn, config, thrown >>
    /\ UNCHANGED << ragVars, auxVars >>

LoadMemories ==
    /\ HiveRuns("load_memories")
    /\ \E raised \in (IF config.user_id = "" THEN { FALSE } ELSE BOOLEAN) :
         returned' = load_memories(hive, config.user_id, StoreView(store), raised)
    /\ hive' = Update(hive, returned')
    /\ hnode' = "beeb"
    /\ UNCHANGED << store, tally >>

Beeb ==
    /\ HiveRuns("beeb")
    /\ \E tool_calls \in BeebAnswers :
         /\ returned' = beeb_supervisor_node(hive, tool_calls)
         /\ tally' = [ tally EXCEPT
                         !.beeb = @ + 1,
                         !.replies = @ + (IF tool_calls = << >> THEN 1 ELSE 0),
                         !.delegations = @ + Delegations(tool_calls) ]
    /\ hive' = Update(hive, returned')
    /\ hnode' = AfterBeeb(hive')
    /\ UNCHANGED store

ScoutBee ==
    /\ HiveRuns("scout_bee")
    /\ \E outcome \in { "products", "nothing", "error" } :
         returned' = scout_bee_node(hive, outcome)
    /\ hive' = Update(hive, returned')
    /\ hnode' = "beeb"
    /\ tally' = Worked("scout_bee")
    /\ UNCHANGED store

MemoryBee ==
    /\ HiveRuns("memory_bee")
    /\ LET kind == KindOf(MemoryType(hive))
       IN  IF config.user_id = "" \/ kind = "none"
           THEN /\ returned' = memory_bee_node(hive, config.user_id, "skipped")
                /\ store' = store
           ELSE \/ /\ returned' = memory_bee_node(hive, config.user_id, "failed")
                   /\ store' = store
                \/ \E responses \in ExtractorAnswers(store[kind]) :
                     /\ returned' = memory_bee_node(hive, config.user_id, "updated")
                     /\ store' = HandleMemory(store, kind, responses)
    /\ hive' = Update(hive, returned')
    /\ hnode' = "beeb"
    /\ tally' = Worked("memory_bee")

ScribeBee ==
    /\ HiveRuns("scribe_bee")
    /\ \E summary_result \in Summaries :
         returned' = scribe_bee_node(hive, summary_result)
    /\ hive' = Update(hive, returned')
    /\ hnode' = "beeb"
    /\ tally' = Worked("scribe_bee")
    /\ UNCHANGED store

\* beeb_supervisor_node and scribe_bee_node call their LLM outside any try:
\* what beeb.invoke or scribe.invoke raises leaves app.ainvoke.  (load_memories,
\* scout_bee_node and memory_bee_node catch what their calls raise.)
HiveNodeRaises ==
    /\ hnode \in { "beeb", "scribe_bee" }
    /\ hstep < MaxHiveSteps
    /\ hnode' = "Exception"
    /\ thrown' = hnode
    /\ UNCHANGED << hive, hstep, hlast, turn, config, store, returned, tally >>
    /\ UNCHANGED << ragVars, auxVars >>

\* The turn has taken recursion_limit super-steps and has not reached END:
\* LangGraph raises GraphRecursionError out of app.ainvoke.
HiveRecursionError ==
    /\ hnode \in HiveNodes
    /\ hstep = MaxHiveSteps
    /\ hnode' = "GraphRecursionError"
    /\ UNCHANGED << hive, hstep, hlast, turn, config, store, returned, tally, thrown >>
    /\ UNCHANGED << ragVars, auxVars >>

\* The next app.ainvoke({"messages": [HumanMessage]}, config) on the thread:
\* the checkpointer's state with the message added, from START.
NewTurn ==
    /\ hnode \in Halted
    /\ turn < MaxTurns
    /\ turn' = turn + 1
    /\ hive' = [hive EXCEPT !.messages = Append(@, HumanMessage)]
    /\ hnode' = "load_memories"
    /\ hstep' = 0
    /\ hlast' = ""
    /\ tally' = NoTally
    /\ thrown' = ""
    /\ UNCHANGED << config, store, returned >>
    /\ UNCHANGED << ragVars, auxVars >>

HiveNext ==
    \/ LoadMemories
    \/ Beeb
    \/ ScoutBee
    \/ MemoryBee
    \/ ScribeBee
    \/ HiveNodeRaises
    \/ HiveRecursionError
    \/ NewTurn

\* ------------------------------------------------- memory handlers: steps
\* The handlers of memory_bee_node applied to the user's namespaces, each
\* with what the extractor may answer given the items the namespace holds.
HandlerRuns(kind) ==
    /\ \E responses \in ExtractorAnswers(store[kind]) :
         store' = HandleMemory(store, kind, responses)
    /\ UNCHANGED << hive, hnode, hstep, hlast, turn, config, returned, tally >>
    /\ UNCHANGED << ragVars, thrown, auxVars >>

HandleProfileMemory ==
    /\ hnode = "idle"
    /\ HandlerRuns("profile")

HandleShoppingMemory ==
    /\ hnode = "idle"
    /\ HandlerRuns("shopping")

HandleInstructionsMemory ==
    /\ hnode = "idle"
    /\ HandlerRuns("instructions")

\* --------------------------------------- the store of all users: steps
NotSeen == [ user_id |-> "", raised |-> FALSE, state |-> HiveStateOf(<< >>) ]

TenantIdle ==
    /\ namespaces = [ ns \in (StoreKinds \cup NodeKinds) \X Users |-> << >> ]
    /\ handlers = [ w \in Writers |-> IdleHandler ]
    /\ seen = NotSeen

SpyIdle ==
    /\ called_tools = << >>
    /\ changes = << >>
    /\ extraction = NoExtraction

ScribeFresh ==
    /\ truncation_logs = << >>
    /\ conversation_summaries = << >>
    /\ invoked = NotInvoked
    /\ trimmed = trim_conversation(<< >>, "", KeepRecent)

ScribeIdle ==
    /\ thread = ThreadOf(<< >>, NoValue, NoValue)
    /\ ScribeFresh

\* No message yet (before any LLM answered, or nothing returned)
NoMessages == << >>

\* entry_node is not running: pc is the LLM it waits for, asked the messages
\* the last LLM invocation was given, reprompted the messages the re-prompt
\* branch built after the last answer, beeb_result / returned what the first
\* Beeb call and entry_node itself returned
EntryIdle ==
    [ pc |-> "idle", calls |-> 0, invocations |-> 0, asked |-> NoMessages,
      reprompted |-> NoMessages, beeb_result |-> NoMessages,
      final_messages |-> NoMessages, returned |-> NoMessages ]

\* dialog_state: List[...] = []
DialogIdle == [ stack |-> << >>, left |-> << >>, right |-> NoValue ]

DelegIdle ==
    /\ dlg = [ messages |-> NoMessages ]
    /\ entry = EntryIdle
    /\ dialog = DialogIdle

AuxIdle == TenantIdle /\ SpyIdle /\ ScribeIdle /\ DelegIdle

\* What load_memories hands on at the start of a turn on a new thread
LoadedOnNewThread(user_id, found, raised) ==
    [ user_id |-> user_id, raised |-> raised,
      state |-> Update(HiveStateOf(<< HumanMessage >>),
                       load_memories(HiveStateOf(<< HumanMessage >>),
                                     user_id, found, raised)) ]

\* A turn of the user on a new thread starts: load_memories reads the store
LoadsOnNewThread ==
    /\ hnode = "idle"
    /\ \E raised \in BOOLEAN :
         seen' = LoadedOnNewThread("user", StoreView(store), raised)
    /\ UNCHANGED << namespaces, handlers, spyVars, scribeVars >>
    /\ UNCHANGED << ragVars, hiveVars, thrown, delegVars >>

\* A memory handler of some user's turn reads the namespace: store.search
HandlerSearches ==
    /\ \E w \in Writers, u \in Users, kind \in PatchedKinds :
         /\ handlers[w].pc = "idle"
         /\ handlers' = [ handlers EXCEPT
                            ![w] = Extracting(u, kind, namespaces[namespace(kind, u)]) ]
    /\ UNCHANGED << namespaces, seen, spyVars, scribeVars >>
    /\ UNCHANGED << ragVars, hiveVars, thrown, delegVars >>

\* The extractor has answered from what the handler read: store.put
HandlerPuts ==
    /\ \E w \in Writers :
         /\ handlers[w].pc = "extracting"
         /\ \E responses \in AnswersFor(handlers[w].existing, handlers[w].user_id) :
              namespaces' =
                [ namespaces EXCEPT
                    ![namespace(handlers[w].kind, handlers[w].user_id)] =
                        PutAll(@, responses, handlers[w].kind) ]
         /\ handlers' = [ handlers EXCEPT ![w] = IdleHandler ]
    /\ UNCHANGED << seen, spyVars, scribeVars >>
    /\ UNCHANGED << ragVars, hiveVars, thrown, delegVars >>

\* A turn of some user on a new thread starts
TenantLoads ==
    /\ \E u \in Users, raised \in BOOLEAN :
         seen' = LoadedOnNewThread(u, StoreView(NamespacesOf(namespaces, u)), raised)
    /\ UNCHANGED << namespaces, handlers, spyVars, scribeVars >>
    /\ UNCHANGED << ragVars, hiveVars, thrown, delegVars >>

TenantNext ==
    \/ HandlerSearches
    \/ HandlerPuts
    \/ TenantLoads

\* ------------------------------------------------ memory nodes with the spy
\* update_semantic_memory in a turn of some user
UpdateSemanticMemory ==
    /\ Len(called_tools) < MaxExtractions
    /\ \E u \in Users :
         \E responses \in SpyAnswers(namespaces[namespace("semantic", u)], FactsOf(u)) :
            /\ namespaces' = [ namespaces EXCEPT
                                 ![namespace("semantic", u)] =
                                     PutAll(@, responses, "semantic") ]
            /\ called_tools' =
                 MemorySpy_call(called_tools, ToolCallsOf(responses, "SemanticMemory"))
            /\ extraction' = [ schema |-> "SemanticMemory", user_id |-> u,
                               tool_calls |-> ToolCallsOf(responses, "SemanticMemory") ]
    /\ changes' = extract_memory_changes(called_tools', "SemanticMemory")
    /\ UNCHANGED << handlers, seen, scribeVars >>
    /\ UNCHANGED << ragVars, hiveVars, thrown, delegVars >>

\* update_episodic_memory in a turn of some user
UpdateEpisodicMemory ==
    /\ Len(called_tools) < MaxExtractions
    /\ \E u \in Users :
         \E responses \in SpyAnswers(<< >>, FactsOf(u)) :
            /\ namespaces' = [ namespaces EXCEPT
                                 ![namespace("episodic", u)] =
                                     PutAll(@, responses, "episodic") ]
            /\ called_tools' =
                 MemorySpy_call(called_tools, ToolCallsOf(responses, "EpisodicMemory"))
            /\ extraction' = [ schema |-> "EpisodicMemory", user_id |-> u,
                               tool_calls |-> ToolCallsOf(responses, "EpisodicMemory") ]
    /\ changes' = extract_memory_changes(called_tools', "EpisodicMemory")
    /\ UNCHANGED << handlers, seen, scribeVars >>
    /\ UNCHANGED << ragVars, hiveVars, thrown, delegVars >>

SpyNext ==
    \/ UpdateSemanticMemory
    \/ UpdateEpisodicMemory

\* ------------------------------------------------------ summarization: steps
NextId(messages) == IF messages = << >> THEN 1 ELSE Last(messages).id + 1

\* A message is added to the conversation
Speaks ==
    /\ NextId(thread.messages) <= MaxSpoken
    /\ thread' = [ thread EXCEPT !.messages = Append(@, Message(NextId(@))) ]
    /\ UNCHANGED << truncation_logs, conversation_summaries, invoked, trimmed >>
    /\ UNCHANGED << tenantVars, spyVars >>
    /\ UNCHANGED << ragVars, hiveVars, thrown, delegVars >>

\* summarize_conversation runs on the conversation
SummarizeConversation ==
    /\ invoked.runs < MaxSummaries
    /\ \E response \in SummaryTexts :
         thread' = [ thread EXCEPT
                       !.summary  = summarize_conversation(thread, response).summary,
                       !.messages = RemoveMessages(@,
                                      summarize_conversation(thread, response).messages),
                       !.messages_since_last_summary =
                          summarize_conversation(thread, response).messages_since_last_summary,
                       !.should_summarize =
                          summarize_conversation(thread, response).should_summarize ]
    /\ invoked' =
         [ runs     |-> invoked.runs + 1,
           messages |-> thread.messages,
           prompt   |-> SummaryPrompt(thread),
           resent   |-> IF SummaryPrompt(thread) = "extend"
                        THEN Ids(thread.messages) \cap invoked.covered ELSE { },
           covered  |-> (IF SummaryPrompt(thread) = "extend"
                         THEN invoked.covered ELSE { }) \cup Ids(thread.messages),
           response |-> thread'.summary ]
    /\ conversation_summaries' =
         IF thread.conversation_id # NoValue
         THEN save_conversation_summary(conversation_summaries, thread'.summary,
                                        Len(thread.messages))
         ELSE conversation_summaries
    /\ truncation_logs' =
         IF thread.conversation_id # NoValue
         THEN log_message_truncation(truncation_logs, Len(thread.messages), 2,
                                     Len(delete_messages(thread)))
         ELSE truncation_logs
    /\ UNCHANGED trimmed
    /\ UNCHANGED << tenantVars, spyVars >>
    /\ UNCHANGED << ragVars, hiveVars, thrown, delegVars >>

\* The scribe calls trim_conversation with the conversation, or with the
\* messages an earlier call returned
TrimConversation ==
    /\ \E messages \in { thread.messages, trimmed.messages },
          summary \in SummaryTexts \ { "" } :
         trimmed' = trim_conversation(messages, summary, KeepRecent)
    /\ UNCHANGED << thread, truncation_logs, conversation_summaries, invoked >>
    /\ UNCHANGED << tenantVars, spyVars >>
    /\ UNCHANGED << ragVars, hiveVars, thrown, delegVars >>

SummaryNext ==
    \/ Speaks
    \/ SummarizeConversation
    \/ TrimConversation

\* ------------------------------------------------------ delegation: steps
DelegFrame == UNCHANGED << ragVars, hiveVars, thrown, tenantVars, spyVars, scribeVars >>

\* The user says something and the graph calls entry_node(state, ...)
EntryCalled ==
    /\ entry.pc = "idle"
    /\ entry.calls < MaxEntryTurns
    /\ \E said \in UserSayings :
          dlg' = [ dlg EXCEPT !.messages = Append(@, said) ]
    /\ entry' = [ EntryIdle EXCEPT !.pc = "beeb", !.calls = entry.calls + 1 ]
    /\ UNCHANGED dialog
    /\ DelegFrame

\* The messages of the state the wrapper under way was called with
StateMessages ==
    CASE entry.pc = "beeb"   -> dlg.messages
      [] entry.pc = "search" -> clean_messages(entry.beeb_result)
      [] entry.pc = "final"  -> entry.final_messages
      [] OTHER               -> NoMessages

\* entry_node returns update; add_messages appends its messages
EntryReturns(update) ==
    /\ entry' = [ entry EXCEPT !.pc = "idle", !.invocations = @ + 1,
                               !.asked = StateMessages,
                               !.reprompted = NoMessages,
                               !.returned = update ]
    /\ dlg' = [ dlg EXCEPT !.messages = @ \o update ]

\* One iteration of the while loop of BeebAssistant.__call__ or
\* ProductSearchAgent.__call__: the prompt is formatted from the state the
\* wrapper was called with, and the answer is re-prompted or returned
ReAsked(agent, result) ==
    /\ NeedsRePrompt(agent, result)
    /\ entry' = [ entry EXCEPT !.invocations = @ + 1,
                               !.asked = StateMessages,
                               !.reprompted = Append(StateMessages, RePrompt) ]
    /\ UNCHANGED dlg

\* The first Beeb call of entry_node
BeebFirst ==
    /\ entry.pc = "beeb"
    /\ entry.invocations < MaxInvocations
    /\ \E result \in BeebReplies :
          \/ ReAsked("beeb", result)
          \/ /\ ~NeedsRePrompt("beeb", result)
             /\ IF DelegationRoute(result.tool_calls) = "continue_dialog"
                THEN /\ entry' = [ entry EXCEPT !.pc = "search",
                                     !.invocations = @ + 1,
                                     !.asked = StateMessages,
                                     !.reprompted = NoMessages,
                                     !.beeb_result = << result >> ]
                     /\ UNCHANGED dlg
                ELSE EntryReturns(<< result >>)
    /\ UNCHANGED dialog
    /\ DelegFrame

\* The product search agent, called with the clean messages
SearchAgent ==
    /\ entry.pc = "search"
    /\ entry.invocations < MaxInvocations
    /\ \E result \in SearchReplies :
          \/ ReAsked("search", result)
          \/ /\ ~NeedsRePrompt("search", result)
             /\ IF DelegationRoute(result.tool_calls) = "pop_dialog"
                THEN /\ entry' = [ entry EXCEPT !.pc = "final",
                                     !.invocations = @ + 1,
                                     !.asked = StateMessages,
                                     !.reprompted = NoMessages,
                                     !.final_messages =
                                        Append(entry.beeb_result,
                                               Msg("tool", "results", << >>)) ]
                     /\ UNCHANGED dlg
                ELSE EntryReturns(entry.beeb_result)
    /\ UNCHANGED dialog
    /\ DelegFrame

\* The second Beeb call of entry_node, with the search results
BeebFinal ==
    /\ entry.pc = "final"
    /\ entry.invocations < MaxInvocations
    /\ \E result \in BeebReplies :
          \/ ReAsked("beeb", result)
          \/ /\ ~NeedsRePrompt("beeb", result)
             /\ EntryReturns(<< result >>)
    /\ UNCHANGED dialog
    /\ DelegFrame

EntryNext ==
    \/ EntryCalled
    \/ BeebFirst
    \/ SearchAgent
    \/ BeebFinal

\* A node returns right for dialog_state and the reducer merges it
DialogUpdated(right) ==
    /\ Len(update_dialog_stack(dialog.stack, right)) <= MaxStack
    /\ dialog' = [ stack |-> update_dialog_stack(dialog.stack, right),
                   left  |-> dialog.stack,
                   right |-> right ]

\* A node that returns no dialog_state
DialogKept ==
    /\ DialogUpdated(NoValue)
    /\ UNCHANGED << dlg, entry >>
    /\ DelegFrame

\* exit_dialog_node and handle_delegation_tool_calls return "pop"
DialogPopped ==
    /\ DialogUpdated("pop")
    /\ UNCHANGED << dlg, entry >>
    /\ DelegFrame

\* handle_delegation_tool_calls returns "product_search"; any declared name
\* may be pushed
DialogPushed ==
    /\ \E name \in DialogNames : DialogUpdated(name)
    /\ UNCHANGED << dlg, entry >>
    /\ DelegFrame

DialogNext ==
    \/ DialogKept
    \/ DialogPopped
    \/ DialogPushed

StoreNext ==
    \/ HandleProfileMemory
    \/ HandleShoppingMemory
    \/ HandleInstructionsMemory
    \/ LoadsOnNewThread

\* ---------------------------------------------------------- specifications
\* A run of the Self-RAG graph.
Init == RagInit /\ HiveIdle /\ AuxIdle

Spec == Init /\ [][Next]_vars

\* Turns of the supervisor graph on one thread.
HiveStart == HiveInit /\ RagIdle /\ AuxIdle

HiveSpec == HiveStart /\ [][HiveNext]_vars

\* Memory updates of one user on an empty store.
StoreStart == RagIdle /\ HiveIdle /\ AuxIdle

StoreSpec == StoreStart /\ [][StoreNext]_vars

\* Turns of two users, two at a time, on one store.
TenantStart == RagIdle /\ HiveIdle /\ AuxIdle

TenantSpec == TenantStart /\ [][TenantNext]_vars

\* The memory nodes of nodes.py, all reporting through the one MemorySpy.
SpyStart == RagIdle /\ HiveIdle /\ AuxIdle

SpySpec == SpyStart /\ [][SpyNext]_vars

\* A conversation that grows and is summarized, with or without a
\* conversation_id in its state.
SummaryStart ==
    /\ RagIdle /\ HiveIdle /\ TenantIdle /\ SpyIdle /\ DelegIdle
    /\ thread \in { [ ThreadOf(<< >>, NoValue, c) EXCEPT
                          !.messages_since_last_summary = n,
                          !.should_summarize = (n > 0) ] :
                      c \in { NoValue, "conversation" },
                      n \in { 0, SummarizeThreshold } }
    /\ ScribeFresh

SummarySpec == SummaryStart /\ [][SummaryNext]_vars

\* The same conversation with the summarize_conversation node alone:
\* trim_conversation reads the messages and writes none of the state.
SummarizeStart == SummaryStart

SummarizeNext ==
    \/ Speaks
    \/ SummarizeConversation

SummarizeSpec == SummarizeStart /\ [][SummarizeNext]_vars

\* Calls of entry_node, one per user message.
EntryStart == RagIdle /\ HiveIdle /\ AuxIdle

EntrySpec == EntryStart /\ [][EntryNext]_vars

\* Updates of dialog_state through its reducer.
DialogStart == RagIdle /\ HiveIdle /\ AuxIdle

DialogSpec == DialogStart /\ [][DialogNext]_vars

\* =================================================== claims: Self-RAG graph
\* n has just run
JustRan(n) == step' = step + 1 /\ lastNode' = n

GVD == "generate_generation_v_documents_grade"

GVQ == "generate_generation_v_question_grade"

\* The text the spec designates for a run that found no grounded answer.
FallbackText == "could not find a grounded answer"

\* C1: every run of the Self-RAG graph terminates within an iteration
\* ceiling, whatever the grading oracle answers: a run that has stopped has
\* stopped at END (success or forced exit), it has not been cut off.
C1_RunStopsAtEnd == node \in Halted => node = "END"

\* C3: the graph reaches END only when the current generation has been
\* graded "yes" for groundedness against the current documents and "yes" for
\* usefulness against the current question, both grades computed for that
\* same generation.
C3_EndOnlyGroundedAndUseful ==
    node = "END" =>
        /\ state.generation_v_documents_grade = "yes"
        /\ state.generation_v_question_grade = "yes"
        /\ groundedFor = [ gen       |-> ran["generate"],
                           text      |-> state.generation,
                           documents |-> state.documents,
                           verdict   |-> "yes" ]
        /\ usefulFor = [ gen      |-> ran["generate"],
                         text     |-> state.generation,
                         question |-> state.question,
                         verdict  |-> "yes" ]
        /\ state.generation = produced

\* C3 witness: END reached by a generation that is not the first one.
C3_Witness == node = "END" /\ ran["generate"] > 1

\* C5: when the groundedness grade of a generation is not "yes", the next
\* node is generate, and the generate that then runs reads the documents and
\* the question the failed generate read: nothing is fetched or rewritten.
C5_UngroundedRegenerates ==
    [][ /\ (JustRan(GVD) /\ state'.generation_v_documents_grade # "yes") =>
              /\ node' = "generate"
              /\ state'.documents = state.documents
              /\ state'.question = state.question
        /\ (JustRan("generate") /\ lastNode = GVD) =>
              /\ state.generation_v_documents_grade # "yes"
              /\ state.documents = genInput.documents
              /\ state.question = genInput.question
              /\ genInput' = genInput
      ]_vars

\* C5 witness: a generate has run right after a failed groundedness grading.
C5_Witness ==
    /\ lastNode = "generate"
    /\ ran["generate"] > 1
    /\ groundedFor.verdict = "no"
    /\ groundedFor.gen = ran["generate"] - 1

\* C6: when a generation is graded grounded but not useful, the next node is
\* transform_query, then retrieve, which searches for the rewritten question
\* and keeps it; END is entered only by a usefulness grade of "yes" for the
\* generation just graded.
C6_UselessRewritesAndRetrieves ==
    [][ /\ (JustRan(GVQ) /\ state'.generation_v_question_grade # "yes") =>
              /\ state.generation_v_documents_grade = "yes"
              /\ node' = "transform_query"
              /\ via' = "not_useful"
        /\ (JustRan("transform_query") /\ via = "not_useful") =>
              /\ node' = "retrieve"
              /\ state'.question \in Rewrites
              /\ state'.generation = state.generation
        /\ (JustRan("retrieve") /\ lastNode = "transform_query" /\ via = "not_useful") =>
              /\ searched' = state.question
              /\ state'.question = state.question
        /\ (node' = "END" /\ node # "END") =>
              /\ JustRan(GVQ)
              /\ state'.generation_v_question_grade = "yes"
      ]_vars

\* C6 witness: after a useless generation the retriever was called with the
\* four-word rewrite, unsimplified.
C6_Witness ==
    /\ lastNode = "retrieve"
    /\ via = "not_useful"
    /\ usefulFor.verdict = "no"
    /\ searched = << "cheap", "fresh", "organic", "bread" >>

\* C7: when no retrieval ever yields relevant evidence, the run ends at END
\* with the designated fallback text; it does not raise.
C7_NoEvidenceEndsWithFallback ==
    (node \in Halted /\ ~history.someRelevant) =>
        (node = "END" /\ state.generation = FallbackText)

OnceEach ==
    [n \in RagNodes |-> IF n = "transform_query" THEN 0 ELSE 1]

FirstPassGood ==
    /\ history.allRelevant
    /\ history.firstGrounded = "yes"
    /\ history.firstUseful = "yes"

\* C8 as stated: if every retrieved document is graded relevant and the
\* first generation is graded grounded and useful, every node but
\* transform_query runs exactly once, transform_query never, and the
\* generation at END is the text of that one generate.
C8_FirstPassAsStated ==
    (node = "END" /\ FirstPassGood) =>
        (ran = OnceEach /\ state.generation = produced)

\* C8 amended: the same, for a first retrieval that returns at least one
\* document.
C8_FirstPass ==
    (node = "END" /\ FirstPassGood /\ history.firstFound > 0) =>
        (ran = OnceEach /\ state.generation = produced /\ step = 5)

\* C8 witness: such a run has ended.
C8_Witness ==
    node = "END" /\ FirstPassGood /\ history.firstFound > 0

\* C9: after grade_documents the next node is transform_query exactly when
\* the filtered list is empty and generate otherwise; generate never runs on
\* an empty list.
C9_GenerateOnlyWithDocuments ==
    [][ /\ JustRan("grade_documents") =>
              /\ (node' = "transform_query") <=> (state'.documents = << >>)
              /\ (node' = "generate") <=> (state'.documents # << >>)
        /\ JustRan("generate") => state.documents # << >>
      ]_vars

\* C9 witness: generate follows a grading that dropped some documents.
C9_Witness ==
    /\ lastNode = "grade_documents"
    /\ node = "generate"
    /\ Len(state.documents) < Len(gradeLog.docs)

\* The positions of docs graded "yes", and the documents at them in order.
KeptAt(answers) == { i \in DOMAIN answers : answers[i] = "yes" }

Kept(docs, answers) ==
    [ k \in 1..Cardinality(KeptAt(answers)) |->
        docs[CHOOSE i \in KeptAt(answers) :
                Cardinality({ j \in KeptAt(answers) : j <= i }) = k] ]

\* C10: grade_documents_node asks the grader once per retrieved document,
\* returns exactly the documents graded "yes" in their original order, and
\* leaves question and generation as they were.
C10_GradeDocumentsFilters ==
    [][ JustRan("grade_documents") =>
          /\ gradeLog'.asked = state.documents
          /\ Len(gradeLog'.answers) = Len(state.documents)
          /\ state'.documents = Kept(state.documents, gradeLog'.answers)
          /\ state'.question = state.question
          /\ state'.generation = state.generation
          /\ state'.messages = state.messages
      ]_vars

\* C10 witness: two documents were graded relevant after a generation exists.
C10_Witness ==
    /\ lastNode = "grade_documents"
    /\ Len(state.documents) = 2
    /\ state.generation # ""


\* ================================================ claims: supervisor graph
\* C2: after every completed turn of the supervisor graph exactly one
\* user-visible assistant message has been produced for the turn and it is
\* the last element of messages: a beeb message without tool calls.
C2_OneReplyLast ==
    hnode = "END" =>
        /\ tally.replies = 1
        /\ Last(hive.messages).type = "ai"
        /\ ~HasToolCalls(Last(hive.messages))

\* C4: iteration_count is 0 at the start of every turn and increases by
\* exactly 1 on each beeb execution, workers leaving it unchanged: whenever
\* beeb has just run, iteration_count is the number of beeb executions of the
\* turn, and it never exceeds the ceiling of 10.
C4_IterationCountCounts ==
    hlast = "beeb" =>
        /\ Get(hive, "iteration_count", 0) = tally.beeb
        /\ tally.beeb <= IterationCeiling


\* The key a worker writes its result under
ResultKey(worker) ==
    CASE worker = "scout_bee"  -> "scout_results"
      [] worker = "memory_bee" -> "memory_results"
      [] OTHER                 -> "scribe_results"

\* The last message is an answer to the user
Answered(st) ==
    /\ st.messages # << >>
    /\ Last(st.messages).type = "ai"
    /\ ~HasToolCalls(Last(st.messages))

\* C11: workers never address the user: the node after every execution of
\* scout_bee, memory_bee or scribe_bee is beeb, the worker returns and leaves
\* the messages it was given, and a turn reaches END only out of beeb.
C11_WorkersReportToBeeb ==
    [][ /\ (hstep' = hstep + 1 /\ hlast' \in WorkerNodes) =>
              /\ hnode' = "beeb"
              /\ returned'.messages = hive.messages
              /\ hive'.messages = hive.messages
        /\ (hnode' = "END" /\ hnode # "END") => (hnode = "beeb" /\ hlast' = "beeb")
      ]_vars

\* C11 witness: a worker has run in the turn and beeb is next.
C11_Witness ==
    hlast \in WorkerNodes /\ hnode = "beeb" /\ tally.workers = 1

\* C12: once a worker has produced a result in a turn, the result field is
\* non-empty when the next beeb execution reads it, and a beeb answer
\* without a new delegation then ends the turn.
C12_SupervisorAnswersWithResult ==
    /\ (hnode = "beeb" /\ hlast \in WorkerNodes) =>
          Get(hive, ResultKey(hlast), "") # ""
    /\ (hlast = "beeb" /\ tally.workers > 0 /\ Answered(hive)) =>
          hnode = "END"

\* C13: every delegation is consumed exactly once and no worker executes
\* without a delegation issued in the current turn: the workers run in a
\* turn never outnumber the delegations beeb has issued in it.
C13_DelegationConsumedOnce ==
    tally.workers <= tally.delegations

\* C14: within a turn the graph does not route to the same worker with the
\* same task twice in a row: when beeb has routed to a worker, that worker
\* with that task is not the job that ran last in the turn.
C14_LoopGuard ==
    (hlast = "beeb" /\ hnode \in WorkerNodes) =>
        tally.lastJob # << hnode, TaskOf(hive, hnode) >>

\* C15: memory_bee_node performs the update for the memory_type of the
\* delegation: when memory_bee is about to run, the memory_type it reads is
\* the one of the most recent assign_to_memory_bee call.
C15_MemoryBeeUsesDelegation ==
    hnode = "memory_bee" =>
        MemoryType(hive) =
            MemoryTypeCalled(RecentToolCalls(hive.messages, Len(hive.messages)),
                             "profile")


\* C16: no exception propagates out of a turn, whichever oracle or store
\* call raises.
C16_NoExceptionLeavesATurn ==
    hnode # "Exception" /\ node # "Exception"

\* The reply the spec designates for an unreachable evidence store.
CouldNotSearchText == "could not search"

\* C17: when the evidence store fails during the retrieve step, the run ends
\* at END with the 'could not search' reply and no exception leaves it.
C17_StoreErrorRecovered ==
    thrown = "retrieve" =>
        (node = "END" /\ state.generation = CouldNotSearchText)

\* C18: scout_bee_node and memory_bee_node never raise: whatever search,
\* extraction or store access did (a missing user_id included), the node
\* returns a non-empty result string under scout_results or memory_results
\* and the next node is beeb; no exception that leaves a turn comes from them.
C18_WorkersNeverRaise ==
    [][ /\ (hstep' = hstep + 1 /\ hlast' \in { "scout_bee", "memory_bee" }) =>
              /\ returned'[ResultKey(hlast')] # ""
              /\ hnode' = "beeb"
        /\ thrown' \notin { "scout_bee", "memory_bee" }
      ]_vars

\* C18 witness: memory_bee has run and its handler had raised.
C18_Witness ==
    /\ hlast = "memory_bee"
    /\ hnode = "beeb"
    /\ returned.memory_results = "Memory update failed"

\* C19: after any sequence of memory updates the store holds at most one
\* profile record and at most one instructions record of the user.
C19_OneProfileOneInstructions ==
    Len(store["profile"]) <= 1 /\ Len(store["instructions"]) <= 1

\* C20: shopping writes are always inserts: a write leaves every shopping
\* record the store already holds as it is.
C20_ShoppingAppendOnly ==
    [][ /\ Len(store'["shopping"]) >= Len(store["shopping"])
        /\ \A i \in 1..Len(store["shopping"]) :
              store'["shopping"][i] = store["shopping"][i]
      ]_vars

\* ========================================== claims: the store and its users
\* C21: for users A # B, a memory written in a turn of A is never returned
\* by a store search or a memory load made for B: every namespace holds only
\* what turns of its own user wrote, a handler reads only records of its
\* own user, and load_memories hands on only memories of its own user.
C21_NamespaceIsolation ==
    /\ \A u \in Users, kind \in StoreKinds :
         \A i \in 1..Len(namespaces[<< kind, u >>]) :
            namespaces[<< kind, u >>][i].value = FactsOf(u)
    /\ \A w \in Writers :
         \A i \in 1..Len(handlers[w].existing) :
            handlers[w].existing[i].value = FactsOf(handlers[w].user_id)
    /\ seen.user_id # "" =>
         /\ seen.state.semantic_memory \in { NoValue, FactsOf(seen.user_id) }
         /\ seen.state.procedural_memory \in { NoValue, FactsOf(seen.user_id) }
         /\ \A i \in 1..Len(seen.state.episodic_memories) :
              seen.state.episodic_memories[i] = FactsOf(seen.user_id)

\* C21 witness: the first user has a profile, a handler of the first user is
\* between its read and its write, and a load for the other user returned
\* the other user's profile.
C21_Witness ==
    /\ namespaces[<< "profile", "user" >>] # << >>
    /\ \E w \in Writers :
         handlers[w].pc = "extracting" /\ handlers[w].user_id = "user"
    /\ seen.user_id = "other"
    /\ seen.state.semantic_memory = "facts B"

\* C22: writes to one (kind, user_id) key are serialized: at most one
\* handler at a time is between its read of the namespace and its write.
C22_OneWriterPerKey ==
    \A v, w \in Writers :
       (v # w /\ handlers[v].pc = "extracting" /\ handlers[w].pc = "extracting")
          => << handlers[v].kind, handlers[v].user_id >>
                # << handlers[w].kind, handlers[w].user_id >>

\* What load_memories reads of the user's namespaces, record by record
FirstValue(items) == IF items = << >> THEN NoValue ELSE items[1].value

LatestValues(items) ==
    [ i \in 1..Min(5, Len(items)) |-> items[Len(items) - Min(5, Len(items)) + i].value ]

C24_ReportsThisExtraction ==
    extraction.schema # "" =>
       changes = ChangesIn(extraction.tool_calls, extraction.schema)

\* ================================================== claims: summarization
\* C25: whenever a turn ends with more messages in the state than the
\* threshold, summarization has run in that turn (scribe_bee was its last
\* worker) and the summary is non-empty.
C25_LongTurnSummarized ==
    (hnode = "END" /\ check_conversation_length(hive))
       => /\ hive.summary \notin { NoValue, "" }
          /\ tally.lastJob # << >>
          /\ tally.lastJob[1] = "scribe_bee"

\* C26: after scribe_bee_node runs the state holds the new summary and only
\* the most recent K messages.
C26_ScribeTruncates ==
    [][ (hstep' = hstep + 1 /\ hlast' = "scribe_bee") =>
          /\ hive'.summary = returned'.summary
          /\ Len(hive'.messages) <= KeepRecent
          /\ \A i \in 1..Len(hive'.messages) :
                hive'.messages[i]
                   = hive.messages[Len(hive.messages) - Len(hive'.messages) + i]
      ]_vars

\* summarize_conversation runs in this step
Summarizes == invoked'.runs = invoked.runs + 1

\* summarize_conversation has left a summary and no message was added since
NoNewMessages ==
    /\ invoked.runs > 0
    /\ thread.summary \notin { NoValue, "" }
    /\ Ids(thread.messages) \subseteq Ids(invoked.messages)

\* C27: a second run of the summarizer with no new message in between
\* leaves the summary as it is and removes no message.
C27_SummarizeIdempotent ==
    [][ (Summarizes /\ NoNewMessages) =>
          /\ thread'.summary = thread.summary
          /\ thread'.messages = thread.messages
      ]_vars

\* C28: when a summary exists, no message that the summary already covers
\* is sent to the LLM again.
C28_OnlyUnsummarizedSent ==
    invoked.prompt = "extend" => invoked.resent = { }

\* C29: every removal of messages by summarize_conversation appends a log
\* entry whose before and after counts are the true message counts.
C29_TruncationLogged ==
    [][ Len(thread'.messages) < Len(thread.messages) =>
          truncation_logs' =
             Append(truncation_logs,
                    [ messages_before  |-> Len(thread.messages),
                      messages_after   |-> Len(thread'.messages),
                      messages_removed |-> Len(thread.messages) - Len(thread'.messages) ])
      ]_vars

\* C30: should_continue, check_conversation_length and
\* should_summarize_conversation ask for a summary at the same message counts.
C30_OneTrigger ==
    /\ (should_continue(thread) = "summarize_conversation")
          <=> check_conversation_length(thread)
    /\ check_conversation_length(thread)
          <=> should_summarize_conversation(thread.messages, SummarizeThreshold)

\* =========================================== claims: state between the steps
\* C31: the groundedness and usefulness verdicts are reset at each
\* generation: right after every generate step both grade fields are empty.
C31_GradesResetAtGenerate ==
    [][ JustRan("generate") =>
          /\ state'.generation_v_documents_grade = ""
          /\ state'.generation_v_question_grade = ""
      ]_vars

\* C32: at the first beeb execution of every turn (beeb is next and
\* load_memories ran last) scout_results, memory_results and scribe_results
\* are empty in the state beeb reads.
C32_ResultsClearedAtTurnStart ==
    (hnode = "beeb" /\ hlast = "load_memories") =>
        \A worker \in WorkerNodes : Get(hive, ResultKey(worker), "") = ""

\* C32 witness: the second turn's first beeb execution is next, and beeb
\* delegated to a worker in the first turn.
C32_Witness ==
    /\ turn = 2 /\ hnode = "beeb" /\ hlast = "load_memories"
    /\ \E i \in 1..Len(hive.messages) :
          FirstWorker(hive.messages[i].tool_calls) \in WorkerNodes

\* C34: retrieve_node simplifies the question only on the first retrieve of
\* a run: on every later retrieve the question in the state is the one
\* passed to the retriever and stays in the state unchanged.
C34_LaterRetrievesKeepQuestion ==
    [][ (JustRan("retrieve") /\ ran["retrieve"] >= 1) =>
          /\ searched' = state.question
          /\ state'.question = state.question
      ]_vars

\* C38: once scout_bee or memory_bee (whose results are never empty) has
\* returned in a turn, the beeb execution that follows routes to no worker.
C38_OneWorkerPerTurn ==
    (hlast = "beeb" /\ tally.lastJob # << >>
        /\ tally.lastJob[1] \in { "scout_bee", "memory_bee" })
       => hnode \notin WorkerNodes

\* C33: after summarize_conversation the messages are the two most recent
\* of the prior list in their order (all of them when there were fewer than
\* two), summary is the LLM's response, messages_since_last_summary is 0 and
\* should_summarize is False.
C33_SummarizeKeepsLastTwo ==
    [][ Summarizes =>
          /\ thread'.messages =
                SubSeq(thread.messages,
                       IF Len(thread.messages) > 2 THEN Len(thread.messages) - 1 ELSE 1,
                       Len(thread.messages))
          /\ thread'.summary = invoked'.response
          /\ thread'.summary \in SummaryTexts
          /\ thread'.messages_since_last_summary = 0
          /\ thread'.should_summarize = FALSE ]_vars

\* C33 witness: the summarizer has run once on more than two messages;
\* two messages are left and the counter is reset.
C33_Witness ==
    /\ invoked.runs = 1
    /\ Len(invoked.messages) > 2
    /\ Len(thread.messages) = 2
    /\ thread.summary = invoked.response
    /\ thread.messages_since_last_summary = 0
    /\ thread.conversation_id = "conversation"

\* ====================================================== claims: delegation
\* C35: whatever entry_node returns ends with an assistant message that has
\* content and no tool calls.
C35_EntryReturnsFinalReply ==
    entry.returned # NoMessages =>
        /\ Last(entry.returned).type = "ai"
        /\ Last(entry.returned).content # ""
        /\ Last(entry.returned).tool_calls = << >>

\* C36: the LLM invocation that follows a re-prompt is given the message
\* list extended with the re-prompt message.
C36_RePromptReachesOracle ==
    [][ (entry'.invocations = entry.invocations + 1
         /\ entry.reprompted # NoMessages) =>
            entry'.asked = entry.reprompted ]_vars

\* C37: when the last message is an assistant reply without tool calls,
\* route_delegation returns "__end__" and should_continue_dialog does not
\* route back to the entry node.
C37_ReplyEndsTheCycle ==
    (/\ entry.pc = "idle"
     /\ dlg.messages # NoMessages
     /\ Last(dlg.messages).type = "ai"
     /\ Last(dlg.messages).tool_calls = << >>) =>
        /\ route_delegation(dlg) = "__end__"
        /\ should_continue_dialog(dlg) # "entry"

\* C39: the dialog stack after an update: None leaves it as it was, "pop"
\* removes only its last entry (an empty stack stays empty), any other value
\* is appended; a push followed by a pop restores the stack; the length
\* changes by at most one.
C39_DialogStackAlgebra ==
    /\ dialog.right = NoValue => dialog.stack = dialog.left
    /\ dialog.right = "pop" =>
          /\ dialog.stack = SubSeq(dialog.left, 1, Len(dialog.left) - 1)
          /\ dialog.left = << >> => dialog.stack = << >>
    /\ dialog.right \notin { NoValue, "pop" } =>
          dialog.stack = dialog.left \o << dialog.right >>
    /\ \A name \in DialogNames :
          update_dialog_stack(update_dialog_stack(dialog.stack, name), "pop")
             = dialog.stack
    /\ Len(dialog.stack) - Len(dialog.left) \in { -1, 0, 1 }

\* C39 witness: a pop has just removed the last of several entries.
C39_Witness ==
    /\ dialog.right = "pop"
    /\ Len(dialog.left) >= 2
    /\ Len(dialog.stack) = Len(dialog.left) - 1

====
